---- MODULE Spec2Model ----
(***************************************************************************)
(* Model of the two annotation extraction pipelines                         *)
(*   src/process_encode_track.py  (regulatory features, priority fields)    *)
(*   src/process_mRNA_track.py    (mRNA features, gated by mRnaAnnotation)  *)
(*                                                                          *)
(* Python strings are sequences of atoms.  An atom is either one character  *)
(* ("#", "\t", "\n", "\r", "\f", " ", ",", "-", a digit) or a word that no  *)
(* operation of the program ever cuts ("mRNA", "enhancer", "gff-version").  *)
(* Python values are records tagged with their kind.                        *)
(***************************************************************************)
EXTENDS Integers, Sequences, FiniteSets, TLC

VARIABLES pipeline, accessions, idx, pc, record, mrna_count, gff_url,
          gff_text, filtered, refiltered, files, trace, sleep_sec

vars == <<pipeline, accessions, idx, pc, record, mrna_count, gff_url,
          gff_text, filtered, refiltered, files, trace, sleep_sec>>

(***************************************************************************)
(* Bounds                                                                   *)
(***************************************************************************)
MaxLines == 3
MaxStrLen == 5
MaxAccessions == 2

(***************************************************************************)
(* Python values                                                            *)
(***************************************************************************)
PyNone == [kind |-> "None"]
PyStr(s) == [kind |-> "str", s |-> s]
PyInt(n) == [kind |-> "int", n |-> n]
PyFloat(w, f) == [kind |-> "float", whole |-> w, frac |-> f]
\* a local variable that has not been assigned in the current call
Unset == [kind |-> "unset"]
\* a key that the JSON object does not have
Absent == [kind |-> "absent"]
\* an exception raised by a network call
Raised == [kind |-> "exception"]

\* Python truth value of a value used in `if x:` / `if not x:`
Truthy(v) ==
    CASE v.kind = "str" -> v.s # <<>>
      [] v.kind = "int" -> v.n # 0
      [] v.kind = "float" -> ~(v.whole = 0 /\ v.frac = 0)
      [] OTHER -> FALSE

\* dict.get(key): None when the key is missing
Get(rec, key) == IF rec[key] = Absent THEN PyNone ELSE rec[key]

(***************************************************************************)
(* String helpers                                                           *)
(***************************************************************************)
Pipelines == {"encode", "mRNA"}

StartsWith(s, p) == Len(s) >= Len(p) /\ SubSeq(s, 1, Len(p)) = p

\* line boundaries of str.splitlines among the atoms of the model; "\f"
\* stands for the boundaries that are not newlines (\v \f \x1c \x1d \x1e
\* \x85 U+2028 U+2029)
LineBoundaries == {"\n", "\r", "\f"}

RECURSIVE SplitLinesFrom(_, _, _, _)
SplitLinesFrom(s, i, cur, acc) ==
    IF i > Len(s) THEN (IF cur = <<>> THEN acc ELSE Append(acc, cur))
    ELSE IF s[i] \in LineBoundaries
         THEN IF s[i] = "\r" /\ i < Len(s) /\ s[i + 1] = "\n"
              THEN SplitLinesFrom(s, i + 2, <<>>, Append(acc, cur))
              ELSE SplitLinesFrom(s, i + 1, <<>>, Append(acc, cur))
         ELSE SplitLinesFrom(s, i + 1, Append(cur, s[i]), acc)

\* str.splitlines()
SplitLines(s) == SplitLinesFrom(s, 1, <<>>, <<>>)

RECURSIVE RStripNewline(_)
\* str.rstrip("\n")
RStripNewline(s) ==
    IF s # <<>> /\ s[Len(s)] = "\n" THEN RStripNewline(SubSeq(s, 1, Len(s) - 1))
    ELSE s

RECURSIVE SplitFrom(_, _, _, _, _)
SplitFrom(s, sep, i, cur, acc) ==
    IF i > Len(s) THEN Append(acc, cur)
    ELSE IF s[i] = sep THEN SplitFrom(s, sep, i + 1, <<>>, Append(acc, cur))
         ELSE SplitFrom(s, sep, i + 1, Append(cur, s[i]), acc)

\* str.split(sep) for a one-character separator
Split(s, sep) == SplitFrom(s, sep, 1, <<>>, <<>>)

RECURSIVE Join(_, _)
\* sep.join(parts)
Join(parts, sep) ==
    IF parts = <<>> THEN <<>>
    ELSE IF Len(parts) = 1 THEN parts[1]
    ELSE parts[1] \o sep \o Join(Tail(parts), sep)

(***************************************************************************)
(* Gate parsing: parse_mrna_annotation                                      *)
(***************************************************************************)
Whitespace == {" ", "\t", "\n", "\r", "\f"}
Digits == {"0", "1", "2", "3", "4", "5", "6", "7", "8", "9"}

DigitValue(d) ==
    CASE d = "0" -> 0 [] d = "1" -> 1 [] d = "2" -> 2 [] d = "3" -> 3
      [] d = "4" -> 4 [] d = "5" -> 5 [] d = "6" -> 6 [] d = "7" -> 7
      [] d = "8" -> 8 [] d = "9" -> 9

DigitAtom(n) == CHOOSE d \in Digits : DigitValue(d) = n

RECURSIVE Strip(_)
\* str.strip()
Strip(s) ==
    IF s # <<>> /\ s[1] \in Whitespace THEN Strip(Tail(s))
    ELSE IF s # <<>> /\ s[Len(s)] \in Whitespace
         THEN Strip(SubSeq(s, 1, Len(s) - 1))
    ELSE s

\* str.replace(old, "") for a one-character old
Remove(s, old) == LET Keep(a) == a # old IN SelectSeq(s, Keep)

RECURSIVE DecimalValue(_, _)
DecimalValue(ds, acc) ==
    IF ds = <<>> THEN acc
    ELSE DecimalValue(Tail(ds), 10 * acc + DigitValue(Head(ds)))

\* int(s): optional whitespace around an optional sign and decimal digits;
\* ok = FALSE stands for ValueError
IntOfStr(s) ==
    LET t == Strip(s)
        signed == t # <<>> /\ t[1] \in {"+", "-"}
        ds == IF signed THEN Tail(t) ELSE t
    IN  IF ds # <<>> /\ \A i \in 1..Len(ds) : ds[i] \in Digits
        THEN [ok |-> TRUE,
              n |-> IF signed /\ t[1] = "-" THEN 0 - DecimalValue(ds, 0)
                    ELSE DecimalValue(ds, 0)]
        ELSE [ok |-> FALSE, n |-> 0]

\* str(value) of a str or of a float with one digit on each side of the point
StrOf(value) ==
    IF value.kind = "str" THEN value.s
    ELSE <<DigitAtom(value.whole), ".", DigitAtom(value.frac)>>

parse_mrna_annotation(value) ==
    IF value = PyNone THEN 0
    ELSE IF value.kind = "int" THEN value.n
    ELSE LET s == Strip(StrOf(value))
         IN  IF s = <<>> THEN 0
             ELSE LET r == IntOfStr(Remove(s, ","))
                  IN  IF r.ok THEN r.n ELSE 0

(***************************************************************************)
(* Source resolution: choose_gff_url / get_gff_url                          *)
(***************************************************************************)
\* ftpPathGff preferred to ftpPathRefseqGff
choose_gff_url_Swapped(rec) ==
    LET orig == Get(rec, "ftpPathGff")
        refseq == Get(rec, "ftpPathRefseqGff")
    IN  IF Truthy(orig) THEN orig
        ELSE IF Truthy(refseq) THEN refseq
        ELSE PyNone

\* a value is used only if something is left of it after strip()
choose_gff_url_Stripped(rec) ==
    LET refseq == Get(rec, "ftpPathRefseqGff")
        orig == Get(rec, "ftpPathGff")
        Usable(v) == Truthy(v) /\ (v.kind = "str" => Strip(v.s) # <<>>)
    IN  IF Usable(refseq) THEN refseq
        ELSE IF Usable(orig) THEN orig
        ELSE PyNone

choose_gff_url(rec) ==
    LET refseq == Get(rec, "ftpPathRefseqGff")
        orig == Get(rec, "ftpPathGff")
    IN  IF Truthy(refseq) THEN refseq
        ELSE IF Truthy(orig) THEN orig
        ELSE PyNone

get_gff_url(rec) ==
    LET url == Get(rec, "ftpPathGff")
    IN  IF ~Truthy(url) THEN PyNone ELSE url

\* ftpPathGff used whatever the parsed mRnaAnnotation is
resolve_mrna_Ungated(rec) ==
    LET n == parse_mrna_annotation(Get(rec, "mRnaAnnotation"))
    IN  [mrna_count |-> PyInt(n), gff_url |-> get_gff_url(rec)]

\* process_accession of the mRNA pipeline, from the parsing of the gate to
\* the assignment of gff_url, which is not reached when mrna_count <= 0
resolve_mrna(rec) ==
    LET n == parse_mrna_annotation(Get(rec, "mRnaAnnotation"))
    IN  [mrna_count |-> PyInt(n),
         gff_url |-> IF n <= 0 THEN Unset ELSE get_gff_url(rec)]

(***************************************************************************)
(* Feature type predicates                                                  *)
(***************************************************************************)
REGULATORY_TYPES ==
    { <<"regulatory_region">>, <<"promoter">>, <<"enhancer">>, <<"silencer">>,
      <<"insulator">>, <<"TF_binding_site">>, <<"CTCF_binding_site">>,
      <<"DNaseI_hypersensitive_site">>, <<"promoter_flanking_region">>,
      <<"open_chromatin_region">>, <<"tss_region">> }

\* the word atoms whose lower-case form contains "regulatory"
WordsWithRegulatory ==
    {"regulatory_region", "Custom_Regulatory_element", "REGULATORY"}

\* "regulatory" in feature_type.lower()
LowerContainsRegulatory(feature_type) ==
    \E i \in 1..Len(feature_type) : feature_type[i] \in WordsWithRegulatory

is_regulatory_type(feature_type) ==
    IF feature_type \in REGULATORY_TYPES THEN TRUE
    ELSE IF LowerContainsRegulatory(feature_type) THEN TRUE
    ELSE FALSE

\* feature_type == "mRNA"
is_mrna_type(feature_type) == feature_type = <<"mRNA">>

\* the test applied to column 3 by the filter of each pipeline
Matches(p, feature_type) ==
    IF p = "encode" THEN is_regulatory_type(feature_type)
    ELSE is_mrna_type(feature_type)

(***************************************************************************)
(* Feature filter: extract_regulatory_gff / extract_mrna_gff                *)
(***************************************************************************)
VersionMarker == <<"#", "#", "gff-version">>
VersionHeader == <<"#", "#", "gff-version", " ", "3">>

MinFields == 3
TypeColumn == 3

RECURSIVE ScanLines(_, _, _, _, _)
\* the for loop over gff_text.splitlines(): collects [headers, lines]
ScanLines(p, lines, i, headers, kept) ==
    IF i > Len(lines) THEN [headers |-> headers, kept |-> kept]
    ELSE LET line == RStripNewline(lines[i])
             fields == Split(line, "\t")
         IN  IF line = <<>> THEN ScanLines(p, lines, i + 1, headers, kept)
             ELSE IF StartsWith(line, <<"#">>)
                  THEN ScanLines(p, lines, i + 1, Append(headers, line), kept)
             ELSE IF Len(fields) < MinFields
                  THEN ScanLines(p, lines, i + 1, headers, kept)
             ELSE IF Matches(p, fields[TypeColumn])
                  THEN ScanLines(p, lines, i + 1, headers, Append(kept, line))
             ELSE ScanLines(p, lines, i + 1, headers, kept)

\* the version line inserted whether or not a header declares a version
EnsureVersion_Always(headers) == <<VersionHeader>> \o headers

\* the version line added after the headers instead of before them
EnsureVersion_Append(headers) ==
    IF ~(\E i \in 1..Len(headers) : StartsWith(headers[i], VersionMarker))
    THEN headers \o <<VersionHeader>>
    ELSE headers

\* headers.insert(0, "##gff-version 3") unless some header declares a version
EnsureVersion(headers) ==
    IF ~(\E i \in 1..Len(headers) : StartsWith(headers[i], VersionMarker))
    THEN <<VersionHeader>> \o headers
    ELSE headers

\* a document is returned even when no data line was kept
ExtractGff_NoEmptyCheck(p, text) ==
    LET r == CHOOSE x \in { ScanLines(p, ls, 1, <<>>, <<>>) : ls \in {SplitLines(text)} } : TRUE
    IN  PyStr(Join(EnsureVersion(r.headers) \o r.kept, <<"\n">>) \o <<"\n">>)

\* extract_regulatory_gff (p = "encode") / extract_mrna_gff (p = "mRNA");
\* ls is bound so that the lines are split once, before the loop
ExtractGff(p, text) ==
    LET r == CHOOSE x \in { ScanLines(p, ls, 1, <<>>, <<>>) : ls \in {SplitLines(text)} } : TRUE
    IN  IF r.kept = <<>> THEN PyNone
        ELSE PyStr(Join(EnsureVersion(r.headers) \o r.kept, <<"\n">>) \o <<"\n">>)

(***************************************************************************)
(* Filter specification: the filter applied to a text, then to its own     *)
(* output.                                                                  *)
(***************************************************************************)
LinePool ==
    { <<>>,
      <<"#", "c">>,
      VersionHeader,
      <<"c", "\t", "s", "\t", "mRNA", "\t", "1">>,
      <<"\t", "\t", "mRNA">>,
      <<"c", "\t", "s", "\t", "enhancer">>,
      <<"c", "\t", "s", "\t", "Custom_Regulatory_element", "\t", "1">>,
      <<"mRNA", "\t", "enhancer">>,
      <<"enhancer", "\t", "mRNA", "\t", "gene", "\t", "mRNA", "\t", "enhancer">>,
      <<"c", "\t", "s", "\t", "mRNA", "\t", "a", "\f", "b">>,
      <<" ", "#", "c">>,
      <<"c", "\t", "s", "\t", "enhancer", "mRNA">> }

LineSeparators == { <<"\n">>, <<"\r">>, <<"\r", "\n">> }

RECURSIVE SeqsUpTo(_, _)
SeqsUpTo(S, n) ==
    IF n = 0 THEN { <<>> }
    ELSE LET shorter == SeqsUpTo(S, n - 1)
         IN  shorter \cup { Append(q, x) : q \in shorter, x \in S }

\* the texts the filter is applied to: up to MaxLines lines of the pool,
\* joined by one kind of separator, with or without a final separator
Texts ==
    { Join(ls, sep) \o (IF last THEN sep ELSE <<>>) :
        ls \in SeqsUpTo(LinePool, MaxLines), sep \in LineSeparators,
        last \in BOOLEAN }

NoRecord == [ftpPathRefseqGff |-> Absent, ftpPathGff |-> Absent,
             mRnaAnnotation |-> Absent]

FilterInit ==
    /\ pipeline \in Pipelines
    /\ gff_text \in { PyStr(t) : t \in Texts }
    /\ pc = "input"
    /\ filtered = Unset
    /\ refiltered = Unset
    /\ accessions = <<>>
    /\ idx = 0
    /\ record = Unset
    /\ mrna_count = Unset
    /\ gff_url = Unset
    /\ files = <<>>
    /\ trace = <<>>
    /\ sleep_sec = 0

\* filtered = extract_..._gff(gff_text)
ApplyFilter ==
    /\ pc = "input"
    /\ filtered' = ExtractGff(pipeline, gff_text.s)
    /\ pc' = "filtered"
    /\ UNCHANGED <<pipeline, accessions, idx, record, mrna_count, gff_url,
                   gff_text, refiltered, files, trace, sleep_sec>>

\* the filter applied to the document it returned
ReapplyFilter ==
    /\ pc = "filtered"
    /\ filtered # PyNone
    /\ refiltered' = ExtractGff(pipeline, filtered.s)
    /\ pc' = "refiltered"
    /\ UNCHANGED <<pipeline, accessions, idx, record, mrna_count, gff_url,
                   gff_text, filtered, files, trace, sleep_sec>>

FilterNext == ApplyFilter \/ ReapplyFilter

SpecFilter == FilterInit /\ [][FilterNext]_vars

(***************************************************************************)
(* Reading documents back, for the properties of the filter                 *)
(***************************************************************************)
IsHeaderLine(line) == line # <<>> /\ line[1] = "#"

DeclaresVersion(line) ==
    Len(line) >= 3 /\ line[1] = "#" /\ line[2] = "#" /\ line[3] = "gff-version"

RECURSIVE CutAt(_, _, _, _)
\* the pieces of s between the positions where IsBreak holds (a "\r\n" pair
\* is one break when "\r" is a break)
CutAt(s, breaks, cur, acc) ==
    IF s = <<>> THEN Append(acc, cur)
    ELSE IF Head(s) \in breaks
         THEN IF Head(s) = "\r" /\ Len(s) > 1 /\ s[2] = "\n"
              THEN CutAt(Tail(Tail(s)), breaks, <<>>, Append(acc, cur))
              ELSE CutAt(Tail(s), breaks, <<>>, Append(acc, cur))
         ELSE CutAt(Tail(s), breaks, Append(cur, Head(s)), acc)

\* the lines of a text whose lines end with a newline: "\n", "\r\n" or "\r"
NewlineLines(text) == CutAt(text, {"\n", "\r"}, <<>>, <<>>)

\* the lines of a document the filter returned (each ends with "\n")
DocLines(doc) ==
    LET pieces == CutAt(doc, {"\n"}, <<>>, <<>>)
    IN  SubSeq(pieces, 1, Len(pieces) - 1)

TabCount(line) == Cardinality({ i \in 1..Len(line) : line[i] = "\t" })

\* the atoms between the second tab and the third tab (or the end)
ThirdField(line) ==
    LET tabs == { i \in 1..Len(line) : line[i] = "\t" }
        second == CHOOSE i \in tabs : Cardinality({ j \in tabs : j < i }) = 1
        after == { i \in tabs : i > second }
        stop == IF after = {} THEN Len(line) + 1
                ELSE CHOOSE i \in after : \A j \in after : i <= j
    IN  SubSeq(line, second + 1, stop - 1)

IsMrna(ft) == ft = <<"mRNA">>

IsRegulatory(ft) ==
    \/ ft \in REGULATORY_TYPES
    \/ \E i \in 1..Len(ft) : ft[i] \in WordsWithRegulatory

\* a data line the predicate of pipeline p selects
Selected(p, line) ==
    /\ ~IsHeaderLine(line)
    /\ TabCount(line) >= 2
    /\ IF p = "mRNA" THEN IsMrna(ThirdField(line)) ELSE IsRegulatory(ThirdField(line))

SelectedLines(p, lines) ==
    LET Test(l) == Selected(p, l) IN SelectSeq(lines, Test)

HeaderLines(lines) == SelectSeq(lines, IsHeaderLine)

DataLines(lines) ==
    LET Test(l) == ~IsHeaderLine(l) IN SelectSeq(lines, Test)

HeadersFirst(lines) ==
    \A i, j \in 1..Len(lines) :
        (i < j /\ ~IsHeaderLine(lines[i])) => ~IsHeaderLine(lines[j])

\* the lines of a text as cut at every boundary of str.splitlines
BoundaryLines(text) == CutAt(text, {"\n", "\r", "\f"}, <<>>, <<>>)

HasVersionLine(lines) == \E i \in 1..Len(lines) : DeclaresVersion(lines[i])

(***************************************************************************)
(* Properties of the filter                                                 *)
(***************************************************************************)
\* C3: when the filter returns a document, its data lines are exactly the
\* non-header lines of the input that have at least 3 tab-separated fields
\* and a matching third field, verbatim, in order, after all header lines.
C3_DataLinesVerbatim ==
    filtered.kind = "str" =>
        LET out == DocLines(filtered.s)
        IN  /\ HeadersFirst(out)
            /\ DataLines(out) = SelectedLines(pipeline, NewlineLines(gff_text.s))

\* C4 as stated: every document the filter returns starts with a line that
\* begins with ##gff-version.
C4_StartsWithVersion ==
    filtered.kind = "str" => DeclaresVersion(DocLines(filtered.s)[1])

\* C4 amended: every document the filter returns has a line that begins with
\* ##gff-version; "##gff-version 3" is put first exactly when no header line
\* of the input declares a version, and otherwise the header lines of the
\* input are returned unchanged in their order.
C4_VersionDeclared ==
    filtered.kind = "str" =>
        LET out == DocLines(filtered.s)
            inHeaders == HeaderLines(BoundaryLines(gff_text.s))
        IN  /\ HasVersionLine(out)
            /\ HeaderLines(out) = IF HasVersionLine(inHeaders) THEN inHeaders
                                  ELSE <<VersionHeader>> \o inHeaders

\* a document was returned for an input with a header and no version line
C4_Witness ==
    /\ filtered.kind = "str"
    /\ HeaderLines(BoundaryLines(gff_text.s)) # <<>>
    /\ ~HasVersionLine(BoundaryLines(gff_text.s))
    /\ DocLines(filtered.s)[1] = VersionHeader

\* C10: the filter applied to a document it returned gives that document.
C10_Idempotent ==
    pc = "refiltered" => refiltered = filtered

\* a document with a synthesized version line and two data lines was
\* filtered again
C10_Witness ==
    /\ pc = "refiltered"
    /\ ~HasVersionLine(BoundaryLines(gff_text.s))
    /\ Len(DataLines(DocLines(filtered.s))) >= 2
    /\ refiltered.kind = "str"

(***************************************************************************)
(* Gate parsing specification                                               *)
(***************************************************************************)
GateAtoms == {"1", "2", "3", "4", ",", " ", "-", "abc"}

GateValues ==
    {Absent, PyNone, PyInt(0 - 1), PyInt(0), PyInt(7), PyFloat(0, 0), PyFloat(7, 0)}
        \cup { PyStr(t) : t \in SeqsUpTo(GateAtoms, MaxStrLen) }

ParseInit ==
    /\ record \in { [NoRecord EXCEPT !.mRnaAnnotation = v] : v \in GateValues }
    /\ pc = "input"
    /\ mrna_count = Unset
    /\ pipeline = "mRNA"
    /\ gff_text = Unset
    /\ filtered = Unset
    /\ refiltered = Unset
    /\ accessions = <<>>
    /\ idx = 0
    /\ gff_url = Unset
    /\ files = <<>>
    /\ trace = <<>>
    /\ sleep_sec = 0

\* mrna_count = parse_mrna_annotation(record.get("mRnaAnnotation"))
ParseGate ==
    /\ pc = "input"
    /\ mrna_count' = PyInt(parse_mrna_annotation(Get(record, "mRnaAnnotation")))
    /\ pc' = "parsed"
    /\ UNCHANGED <<pipeline, accessions, idx, record, gff_url, gff_text,
                   filtered, refiltered, files, trace, sleep_sec>>

ParseNext == ParseGate

SpecParse == ParseInit /\ [][ParseNext]_vars

\* the rule of the gate field for a string: whitespace around it and commas
\* dropped, then a decimal integer with an optional sign, anything else 0
GateRuleOfStr(s) ==
    LET NotComma(a) == a # ","
        NotSpace(a) == a \notin Whitespace
        inner == SelectSeq(s, NotComma)
        first == IF \E i \in 1..Len(inner) : NotSpace(inner[i])
                 THEN CHOOSE i \in 1..Len(inner) :
                        NotSpace(inner[i]) /\ \A j \in 1..(i - 1) : ~NotSpace(inner[j])
                 ELSE 1
        last == IF \E i \in 1..Len(inner) : NotSpace(inner[i])
                THEN CHOOSE i \in 1..Len(inner) :
                        NotSpace(inner[i]) /\ \A j \in (i + 1)..Len(inner) : ~NotSpace(inner[j])
                ELSE 0
        core == SubSeq(inner, first, last)
        neg == core # <<>> /\ core[1] = "-"
        ds == IF neg THEN Tail(core) ELSE core
        Pow10(k) == IF k = 0 THEN 1 ELSE IF k = 1 THEN 10 ELSE IF k = 2 THEN 100
                    ELSE IF k = 3 THEN 1000 ELSE IF k = 4 THEN 10000
                    ELSE IF k = 5 THEN 100000 ELSE 1000000
        Pos(k) == DigitValue(ds[k]) * Pow10(Len(ds) - k)
        RECURSIVE Sum(_)
        Sum(k) == IF k = 0 THEN 0 ELSE Pos(k) + Sum(k - 1)
    IN  IF ds # <<>> /\ \A i \in 1..Len(ds) : ds[i] \in Digits
        THEN (IF neg THEN 0 - Sum(Len(ds)) ELSE Sum(Len(ds)))
        ELSE 0

\* C6: null or absent gives 0, a numeric value of any kind is used as it
\* is, and a string is parsed by the rule of the gate field ("1,234" gives
\* 1234, "" gives 0, "abc" gives 0).
C6_GateParsing ==
    pc = "parsed" =>
        LET v == record.mRnaAnnotation
        IN  CASE v \in {Absent, PyNone} -> mrna_count = PyInt(0)
              [] v.kind = "int" -> mrna_count = PyInt(v.n)
              [] v.kind = "float" -> (v.frac = 0 => mrna_count = PyInt(v.whole))
              [] v.kind = "str" -> mrna_count = PyInt(GateRuleOfStr(v.s))

(***************************************************************************)
(* Source resolution specification                                          *)
(***************************************************************************)
UrlValues ==
    { Absent, PyNone, PyStr(<<>>), PyStr(<<" ">>),
      PyStr(<<"ftp://host/refseq.gff", ".gz">>), PyStr(<<"ftp://host/orig.gff">>) }

ResolveGateValues == { Absent, PyInt(0), PyInt(5), PyStr(<<"1", ",", "2", "3", "4">>) }

ResolveInit ==
    /\ pipeline \in Pipelines
    /\ record \in [ftpPathRefseqGff : UrlValues, ftpPathGff : UrlValues,
                   mRnaAnnotation : ResolveGateValues]
    /\ pc = "input"
    /\ mrna_count = Unset
    /\ gff_url = Unset
    /\ gff_text = Unset
    /\ filtered = Unset
    /\ refiltered = Unset
    /\ accessions = <<>>
    /\ idx = 0
    /\ files = <<>>
    /\ trace = <<>>
    /\ sleep_sec = 0

\* gff_url = choose_gff_url(record)
ResolvePriority ==
    /\ pc = "input"
    /\ pipeline = "encode"
    /\ gff_url' = choose_gff_url(record)
    /\ pc' = "resolved"
    /\ UNCHANGED <<pipeline, accessions, idx, record, mrna_count, gff_text,
                   filtered, refiltered, files, trace, sleep_sec>>

\* mrna_count = parse_mrna_annotation(...); gff_url = get_gff_url(record)
\* only when mrna_count > 0
ResolveGated ==
    /\ pc = "input"
    /\ pipeline = "mRNA"
    /\ mrna_count' = resolve_mrna(record).mrna_count
    /\ gff_url' = resolve_mrna(record).gff_url
    /\ pc' = "resolved"
    /\ UNCHANGED <<pipeline, accessions, idx, record, gff_text,
                   filtered, refiltered, files, trace, sleep_sec>>

ResolveNext == ResolvePriority \/ ResolveGated

SpecResolve == ResolveInit /\ [][ResolveNext]_vars

NonEmptyStr(v) == v.kind = "str" /\ Len(v.s) > 0

EmptyOrMissing(v) == v \in {Absent, PyNone, PyStr(<<>>)}

WhitespaceOnly(v) ==
    /\ v.kind = "str"
    /\ Len(v.s) > 0
    /\ \A i \in 1..Len(v.s) : v.s[i] \in Whitespace

\* C7: choose_gff_url returns ftpPathRefseqGff when it is a non-empty
\* string, else ftpPathGff when that is a non-empty string, and None when
\* both are empty, absent or null.
C7_PriorityResolution ==
    (pc = "resolved" /\ pipeline = "encode") =>
        LET a == record.ftpPathRefseqGff
            b == record.ftpPathGff
        IN  /\ NonEmptyStr(a) => gff_url = a
            /\ (EmptyOrMissing(a) /\ NonEmptyStr(b)) => gff_url = b
            /\ (EmptyOrMissing(a) /\ EmptyOrMissing(b)) => gff_url = PyNone

\* both fields hold different non-empty strings and the first was returned
C7_Witness ==
    /\ pc = "resolved"
    /\ pipeline = "encode"
    /\ NonEmptyStr(record.ftpPathRefseqGff)
    /\ NonEmptyStr(record.ftpPathGff)
    /\ record.ftpPathRefseqGff # record.ftpPathGff
    /\ ~WhitespaceOnly(record.ftpPathRefseqGff)
    /\ gff_url = record.ftpPathRefseqGff

\* C8 as stated: a whitespace-only ftpPathRefseqGff is not returned; the
\* result is ftpPathGff, or None when ftpPathGff is whitespace-only, empty
\* or absent.
C8_WhitespaceIsEmpty ==
    (pc = "resolved" /\ pipeline = "encode" /\ WhitespaceOnly(record.ftpPathRefseqGff)) =>
        LET b == record.ftpPathGff
        IN  IF WhitespaceOnly(b) \/ EmptyOrMissing(b) THEN gff_url = PyNone
            ELSE gff_url = b

\* C8 amended: a whitespace-only value counts as non-empty: a whitespace-only
\* ftpPathRefseqGff is returned whatever ftpPathGff is, and a
\* whitespace-only ftpPathGff is returned when ftpPathRefseqGff is empty,
\* absent or null.
C8_WhitespaceIsValue ==
    (pc = "resolved" /\ pipeline = "encode") =>
        LET a == record.ftpPathRefseqGff
            b == record.ftpPathGff
        IN  /\ WhitespaceOnly(a) => gff_url = a
            /\ (EmptyOrMissing(a) /\ WhitespaceOnly(b)) => gff_url = b

\* a whitespace-only ftpPathRefseqGff was resolved next to a usable ftpPathGff
C8_Witness ==
    /\ pc = "resolved"
    /\ pipeline = "encode"
    /\ WhitespaceOnly(record.ftpPathRefseqGff)
    /\ NonEmptyStr(record.ftpPathGff)
    /\ ~WhitespaceOnly(record.ftpPathGff)
    /\ gff_url = record.ftpPathRefseqGff

(***************************************************************************)
(* Batch specification: main and process_accession                          *)
(*                                                                          *)
(* The remote service answers a metadata request with a JSON object or the  *)
(* request raises; a payload request gives a decoded text or raises.  The   *)
(* output directory is writable.  trace records the requests, writes and    *)
(* delays in the order the program makes them.                              *)
(***************************************************************************)
AccessionIds == {"GWHA", "GWHB"}

NoFile == [kind |-> "nofile"]
OldFile == PyStr(<<"old">>)

\* the output directory before the run: empty, or holding files of a
\* previous run
InitialFiles == { [a \in AccessionIds |-> NoFile], [a \in AccessionIds |-> OldFile] }

\* --sleep, in tenths of a second (default 0.2)
SleepValues == {0, 2}

BatchRecords ==
    [ftpPathRefseqGff : {Absent, PyStr(<<"ftp://host/refseq.gff", ".gz">>)},
     ftpPathGff : {PyStr(<<>>), PyStr(<<"ftp://host/orig.gff">>)},
     mRnaAnnotation : {PyInt(0), PyStr(<<"1", ",", "2", "3", "4">>)}]

BatchTexts ==
    { <<"#", "c", "\n", "c", "\t", "s", "\t", "gene", "\n">>,
      <<"#", "c", "\n", "\t", "\t", "mRNA", "\n", "\t", "\t", "enhancer", "\n">> }

Event(op, acc) == [op |-> op, acc |-> acc]

\* the accession process_accession is running for
Current == accessions[idx + 1]

BatchInit ==
    /\ pipeline \in Pipelines
    /\ accessions \in SeqsUpTo(AccessionIds, MaxAccessions)
    /\ sleep_sec \in SleepValues
    /\ files \in InitialFiles
    /\ idx = 0
    /\ pc = "main"
    /\ record = Unset
    /\ mrna_count = Unset
    /\ gff_url = Unset
    /\ gff_text = Unset
    /\ filtered = Unset
    /\ refiltered = Unset
    /\ trace = <<>>

\* return from process_accession to the for loop of main
Return ==
    /\ pc' = "main"
    /\ idx' = idx + 1

\* for acc in ...: process_accession(acc, ...), with fresh locals
CallProcessAccession ==
    /\ pc = "main"
    /\ idx < Len(accessions)
    /\ pc' = "fetch_metadata"
    /\ record' = Unset
    /\ mrna_count' = Unset
    /\ gff_url' = Unset
    /\ gff_text' = Unset
    /\ filtered' = Unset
    /\ UNCHANGED <<pipeline, accessions, idx, refiltered, files, trace, sleep_sec>>

\* the for loop of main is exhausted
FinishBatch ==
    /\ pc = "main"
    /\ idx = Len(accessions)
    /\ pc' = "done"
    /\ UNCHANGED <<pipeline, accessions, idx, record, mrna_count, gff_url,
                   gff_text, filtered, refiltered, files, trace, sleep_sec>>

\* the exception of fetch_metadata is not caught
FetchMetadata_Uncaught ==
    /\ pc = "fetch_metadata"
    /\ trace' = Append(trace, Event("metadata", Current))
    /\ \E r \in BatchRecords \cup {Raised} :
        IF r = Raised
        THEN pc' = "crashed" /\ UNCHANGED <<record, idx>>
        ELSE record' = r /\ pc' = "resolve" /\ UNCHANGED idx
    /\ UNCHANGED <<pipeline, accessions, mrna_count, gff_url, gff_text,
                   filtered, refiltered, files, sleep_sec>>

\* try: record = fetch_metadata(accession) except Exception: return
FetchMetadata ==
    /\ pc = "fetch_metadata"
    /\ trace' = Append(trace, Event("metadata", Current))
    /\ \E r \in BatchRecords \cup {Raised} :
        IF r = Raised
        THEN Return /\ UNCHANGED record
        ELSE record' = r /\ pc' = "resolve" /\ UNCHANGED idx
    /\ UNCHANGED <<pipeline, accessions, mrna_count, gff_url, gff_text,
                   filtered, refiltered, files, sleep_sec>>

\* gff_url = choose_gff_url(record); if not gff_url: return
ChooseSource ==
    /\ pc = "resolve"
    /\ pipeline = "encode"
    /\ gff_url' = choose_gff_url(record)
    /\ IF ~Truthy(gff_url') THEN Return ELSE pc' = "download" /\ UNCHANGED idx
    /\ UNCHANGED <<pipeline, accessions, record, mrna_count, gff_text,
                   filtered, refiltered, files, trace, sleep_sec>>

\* mrna_count = parse_mrna_annotation(...); if mrna_count <= 0: return;
\* gff_url = get_gff_url(record); if not gff_url: return
GateSource ==
    /\ pc = "resolve"
    /\ pipeline = "mRNA"
    /\ mrna_count' = resolve_mrna(record).mrna_count
    /\ gff_url' = resolve_mrna(record).gff_url
    /\ IF ~Truthy(gff_url') THEN Return ELSE pc' = "download" /\ UNCHANGED idx
    /\ UNCHANGED <<pipeline, accessions, record, gff_text,
                   filtered, refiltered, files, trace, sleep_sec>>

\* try: gff_text = download_gff_text(gff_url) except Exception: return
DownloadGff ==
    /\ pc = "download"
    /\ trace' = Append(trace, Event("payload", Current))
    /\ \E t \in { PyStr(x) : x \in BatchTexts } \cup {Raised} :
        IF t = Raised
        THEN Return /\ UNCHANGED gff_text
        ELSE gff_text' = t /\ pc' = "filter" /\ UNCHANGED idx
    /\ UNCHANGED <<pipeline, accessions, record, mrna_count, gff_url,
                   filtered, refiltered, files, sleep_sec>>

\* filtered = extract_..._gff(gff_text); if filtered is None: return
FilterGff ==
    /\ pc = "filter"
    /\ filtered' = ExtractGff(pipeline, gff_text.s)
    /\ IF filtered' = PyNone THEN Return ELSE pc' = "write" /\ UNCHANGED idx
    /\ UNCHANGED <<pipeline, accessions, record, mrna_count, gff_url,
                   gff_text, refiltered, files, trace, sleep_sec>>

\* os.makedirs(out_dir); open(out_path, "w").write(filtered)
WriteOutput ==
    /\ pc = "write"
    /\ files' = [files EXCEPT ![Current] = filtered]
    /\ trace' = Append(trace, Event("write", Current))
    /\ pc' = "sleep"
    /\ UNCHANGED <<pipeline, accessions, idx, record, mrna_count, gff_url,
                   gff_text, filtered, refiltered, sleep_sec>>

\* if sleep_sec > 0: time.sleep(sleep_sec); then the function returns
SleepAfterWrite ==
    /\ pc = "sleep"
    /\ trace' = IF sleep_sec > 0 THEN Append(trace, Event("sleep", Current))
                ELSE trace
    /\ Return
    /\ UNCHANGED <<pipeline, accessions, record, mrna_count, gff_url,
                   gff_text, filtered, refiltered, files, sleep_sec>>

Next ==
    \/ CallProcessAccession
    \/ FinishBatch
    \/ FetchMetadata
    \/ ChooseSource
    \/ GateSource
    \/ DownloadGff
    \/ FilterGff
    \/ WriteOutput
    \/ SleepAfterWrite

Spec == BatchInit /\ [][Next]_vars

\* the program is sequential and every network call has a timeout, so a
\* step that can be taken is taken
FairSpec == BatchInit /\ [][Next]_vars /\ WF_vars(Next)

(***************************************************************************)
(* Properties of the batch                                                  *)
(***************************************************************************)
\* the accessions of the metadata requests issued so far, in order
RECURSIVE RequestedAccessions(_)
RequestedAccessions(t) ==
    IF t = <<>> THEN <<>>
    ELSE IF Head(t).op = "metadata"
         THEN <<Head(t).acc>> \o RequestedAccessions(Tail(t))
         ELSE RequestedAccessions(Tail(t))

HasEvent(op, acc) == \E i \in 1..Len(trace) : trace[i] = Event(op, acc)

\* C1: a file of the output directory is created or modified only by the
\* write of the current accession, after its metadata was fetched, a source
\* was resolved, the payload was fetched and the filter matched at least
\* one data line; the file then holds the filtered document.
C1_WriteOnlyOnSuccess ==
    [][ files' # files =>
          /\ pc = "write"
          /\ record \in BatchRecords
          /\ NonEmptyStr(gff_url)
          /\ gff_text.kind = "str"
          /\ SelectedLines(pipeline, BoundaryLines(gff_text.s)) # <<>>
          /\ filtered.kind = "str"
          /\ \A a \in AccessionIds :
                files'[a] = IF a = Current THEN filtered ELSE files[a] ]_vars

\* one accession has got its file and a later one, whose payload had no
\* matching line, has returned without a file
C1_Witness ==
    /\ pc = "main"
    /\ idx = 2
    /\ accessions[1] # accessions[2]
    /\ HasEvent("write", accessions[1])
    /\ files[accessions[1]].kind = "str"
    /\ files[accessions[1]] # OldFile
    /\ gff_text.kind = "str"
    /\ filtered = PyNone
    /\ files[accessions[2]] = NoFile

\* C2: the accessions are processed once each in list order, a failure of
\* one accession only skips it, and the batch terminates normally.
C2_BatchCompletes ==
    <>(pc = "done" /\ RequestedAccessions(trace) = accessions)

\* the batch is done, its first accession failed and its second one was
\* written
C2_Witness ==
    /\ pc = "done"
    /\ Len(accessions) = 2
    /\ ~HasEvent("write", accessions[1])
    /\ HasEvent("write", accessions[2])

\* C5: in the mRNA pipeline a parsed mRnaAnnotation <= 0 gives no source
\* even if ftpPathGff is a non-empty string: the accession returns with no
\* payload request and no write; a parsed value > 0 gives ftpPathGff if it
\* is non-empty and no source otherwise.
C5_GatedResolution ==
    (pipeline = "mRNA" /\ mrna_count # Unset) =>
        /\ mrna_count = PyInt(parse_mrna_annotation(Get(record, "mRnaAnnotation")))
        /\ IF mrna_count.n <= 0
           THEN /\ pc \in {"main", "done"}
                /\ gff_url = Unset
                /\ gff_text = Unset
                /\ trace[Len(trace)] = Event("metadata", accessions[idx])
           ELSE IF NonEmptyStr(Get(record, "ftpPathGff"))
           THEN gff_url = record.ftpPathGff
           ELSE /\ gff_url = PyNone
                /\ pc \in {"main", "done"}
                /\ trace[Len(trace)] = Event("metadata", accessions[idx])

\* an accession whose record has a non-empty ftpPathGff and a gate of 0 has
\* returned
C5_Witness ==
    /\ pipeline = "mRNA"
    /\ pc = "main"
    /\ mrna_count # Unset
    /\ mrna_count.n <= 0
    /\ NonEmptyStr(record.ftpPathGff)
    /\ ~HasEvent("payload", accessions[idx])

\* C9: when the delay is positive, every metadata request but the first
\* comes right after a delay, whether the accession before it was written
\* or skipped.
C9_DelayBetweenAccessions ==
    sleep_sec > 0 =>
        \A i \in 2..Len(trace) :
            trace[i].op = "metadata" => trace[i - 1].op = "sleep"

====
